---- MODULE Spec2Model ----
(***************************************************************************)
(* Context Connector: the history-to-profile pipeline of                   *)
(* src/src/historyProcessor.js, the background service worker of           *)
(* src/src/background.js, the content script of src/src/content.js, and    *)
(* the copy of the pipeline inlined in the combined background script,     *)
(* src/unnamed/part_002.                                                   *)
(*                                                                         *)
(* JavaScript strings are TLA+ strings (TLC evaluates Len, SubSeq, Head,   *)
(* Tail and \o on them).  Timestamps are counted in seconds where the code *)
(* counts milliseconds, so that 30 and 90 days fit TLC's 32-bit integers:  *)
(* the code's factor 24 * 60 * 60 * 1000 is DayLen == 24 * 60 * 60 here.   *)
(***************************************************************************)
EXTENDS Integers, Sequences, FiniteSets, TLC

VARIABLES
    \* ---- pipeline specification (SpecPipeline) ----
    topicMap,       \* CONFIG.topicMap, the topic table in key order
    historyItems,   \* the argument of buildContextProfile
    nowAt,          \* the value Date.now() returns inside classifyDomains
    stage,          \* "input", "built", "formatted"
    domainMap,      \* result of buildDomainFrequencyMap (insertion order)
    classified,     \* result of classifyDomains
    topics,         \* result of detectTopics
    profile,        \* result of buildContextProfile
    formatted,      \* result of formatProfileForInjection
    \* ---- background service worker (Spec) ----
    clock,          \* the latest value Date.now() returned
    alarm,          \* TRUE iff the alarm dailyHistorySync exists
    installer,      \* position of the onInstalled handler
    slot,           \* chrome.storage.local value under STORAGE_KEY
    cycles,         \* the calls of syncHistory, in the order they started
    writeLog,       \* id of the cycle whose storage write succeeded last, 0 if none
    unhandled,      \* number of rejected promises and thrown errors nobody handles
    reads,          \* the getProfile and getFormattedProfile messages, in order of arrival
    \* ---- content script (SpecContent) ----
    href,           \* window.location: hostname and pathname
    lastUrl,        \* the href the MutationObserver callback saw last
    elements,       \* the elements the platform's selectors match, if any
    chains          \* the runs of init(), in the order they started

pipeVars == <<topicMap, historyItems, nowAt, stage, domainMap, classified,
              topics, profile, formatted>>
bgVars == <<clock, alarm, installer, slot, cycles, writeLog, unhandled, reads>>
pageVars == <<href, lastUrl, elements, chains>>
vars == <<topicMap, historyItems, nowAt, stage, domainMap, classified,
          topics, profile, formatted,
          clock, alarm, installer, slot, cycles, writeLog, unhandled, reads,
          href, lastUrl, elements, chains>>

-----------------------------------------------------------------------------
(* Bounds *)

MaxLen == 2         \* longest free part of a visit sequence
MaxBulk == 21       \* largest block of distinct generated domains
MaxCycles == 2      \* calls of syncHistory and storage reads in one behaviour
MaxTicks == 1       \* how far the clock advances in one behaviour
MaxInits == 2       \* runs of init() that reach sendMessage in one behaviour

-----------------------------------------------------------------------------
(* Strings *)

StartsWith(s, p) == Len(s) >= Len(p) /\ SubSeq(s, 1, Len(p)) = p

\* String.prototype.endsWith
EndsWith(s, p) == Len(s) >= Len(p) /\ SubSeq(s, Len(s) - Len(p) + 1, Len(s)) = p

\* String.prototype.includes
RECURSIVE Includes(_, _)
Includes(s, p) ==
    IF Len(s) < Len(p) THEN FALSE
    ELSE StartsWith(s, p) \/ Includes(Tail(s), p)

UpperChars == "ABCDEFGHIJKLMNOPQRSTUVWXYZ"
LowerChars == "abcdefghijklmnopqrstuvwxyz"

LowerChar(c) ==
    IF \E i \in 1..Len(UpperChars) : SubSeq(UpperChars, i, i) = c
    THEN LET i == CHOOSE j \in 1..Len(UpperChars) : SubSeq(UpperChars, j, j) = c
         IN  SubSeq(LowerChars, i, i)
    ELSE c

RECURSIVE ToLower(_)
ToLower(s) == IF s = "" THEN "" ELSE LowerChar(Head(s)) \o ToLower(Tail(s))

\* Array.prototype.join
RECURSIVE Join(_, _)
Join(seq, sep) ==
    IF seq = <<>> THEN ""
    ELSE IF Len(seq) = 1 THEN seq[1]
    ELSE LET m == Len(seq) \div 2
         IN  Join(SubSeq(seq, 1, m), sep) \o sep \o Join(SubSeq(seq, m + 1, Len(seq)), sep)

\* the elements of seq without repetition, each at its first position: the
\* iteration order of a Map's keys or a Set's values after seq was inserted
KeepFirst(seq) ==
    LET first == SelectSeq([i \in 1..Len(seq) |-> i],
                           LAMBDA i : \A j \in 1..i - 1 : seq[j] # seq[i])
    IN  [k \in 1..Len(first) |-> seq[first[k]]]

-----------------------------------------------------------------------------
(* new URL(url).hostname, for URLs of the form scheme://host[:port][/...];  *)
(* any other string makes the URL constructor throw.                       *)

Schemes == {"https://", "http://"}
HostDelimiters == {"/", "?", "#", ":"}

HasScheme(url) == \E sch \in Schemes : StartsWith(url, sch)

AfterScheme(url) ==
    LET sch == CHOOSE x \in Schemes : StartsWith(url, x)
    IN  SubSeq(url, Len(sch) + 1, Len(url))

RECURSIVE TakeHost(_)
TakeHost(s) ==
    IF s = "" THEN ""
    ELSE IF Head(s) \in HostDelimiters THEN ""
    ELSE Head(s) \o TakeHost(Tail(s))

\* the URL constructor throws on a string without a special scheme, on an
\* empty host and on a host with a space
UrlThrows(url) ==
    \/ ~HasScheme(url)
    \/ TakeHost(AfterScheme(url)) = ""
    \/ Includes(TakeHost(AfterScheme(url)), " ")

hostname(url) == ToLower(TakeHost(AfterScheme(url)))

-----------------------------------------------------------------------------
(* CONFIG of historyProcessor.js *)

DayLen == 24 * 60 * 60

activeDaysWindow == 30
coreToolThreshold == 10
coreToolsLimit == 15
activeInterestsLimit == 20

blocklist ==
    { "google.com", "google.co.uk", "bing.com", "duckduckgo.com",
      "googletagmanager.com", "doubleclick.net", "googlesyndication.com",
      "facebook.com", "instagram.com", "twitter.com", "x.com",
      "youtube.com",
      "localhost", "127.0.0.1",
      "accounts.google.com", "login.microsoftonline.com",
      "amazon.com" }

DefaultTopicMap ==
    << [topic |-> "Product Management", domains |->
          << "linear.app", "notion.so", "jira.atlassian.com", "productboard.com",
             "miro.com", "figma.com", "amplitude.com", "mixpanel.com",
             "producthunt.com", "lenny.substack.com" >>],
       [topic |-> "AI & Machine Learning", domains |->
          << "claude.ai", "chatgpt.com", "openai.com", "gemini.google.com",
             "huggingface.co", "arxiv.org", "deepmind.com", "anthropic.com",
             "replicate.com", "perplexity.ai" >>],
       [topic |-> "Finance & Investing", domains |->
          << "bloomberg.com", "wsj.com", "ft.com", "schwab.com",
             "robinhood.com", "coinbase.com", "yahoo.com", "marketwatch.com" >>],
       [topic |-> "Real Estate", domains |->
          << "zillow.com", "redfin.com", "realtor.com", "apartments.com",
             "streeteasy.com", "compass.com" >>],
       [topic |-> "Fashion & Style", domains |->
          << "vogue.com", "net-a-porter.com", "ssense.com", "matchesfashion.com",
             "farfetch.com", "theoutnet.com", "shopbop.com", "revolve.com",
             "whowhatwear.com", "byrdie.com" >>],
       [topic |-> "Travel", domains |->
          << "google.com/travel", "expedia.com", "kayak.com", "airbnb.com",
             "tripadvisor.com", "booking.com", "skyscanner.com", "hotels.com" >>],
       [topic |-> "Health & Wellness", domains |->
          << "myfitnesspal.com", "peloton.com", "headspace.com", "calm.com",
             "healthline.com", "webmd.com", "nytimes.com/section/health" >>],
       [topic |-> "Engineering & Tech", domains |->
          << "github.com", "stackoverflow.com", "docs.python.org",
             "developer.mozilla.org", "npmjs.com", "vercel.com", "netlify.com",
             "aws.amazon.com" >>],
       [topic |-> "News & Media", domains |->
          << "nytimes.com", "theguardian.com", "bbc.com", "theatlantic.com",
             "newyorker.com", "politico.com", "axios.com" >>] >>

\* The table after the edit its comment invites ("Add your own domains here
\* over time"): github.com also signals Product Management, so one domain
\* matches patterns of two topics.
CustomTopicMap ==
    [DefaultTopicMap EXCEPT ![1].domains = Append(@, "github.com")]

TopicTables == {DefaultTopicMap, CustomTopicMap}

-----------------------------------------------------------------------------
(* Inputs of the pipeline: visit records as chrome.history.search returns   *)
(* them.  A record may lack visitCount or lastVisitTime.                   *)

T0 == 100 * DayLen
Cutoff0 == T0 - activeDaysWindow * DayLen
Nows == {T0, T0 + 1}

Visits ==
    { [url |-> "https://www.notion.so/a", visitCount |-> 12,
       lastVisitTime |-> T0 - 60 * DayLen],
      [url |-> "https://notion.so/b", visitCount |-> 3,
       lastVisitTime |-> T0 - DayLen],
      [url |-> "https://accounts.google.com/signin", visitCount |-> 4,
       lastVisitTime |-> T0],
      [url |-> "https://Mail.Google.com/mail", visitCount |-> 20,
       lastVisitTime |-> T0],
      [url |-> "https://vogue.com/x", visitCount |-> 1,
       lastVisitTime |-> T0 - 5 * DayLen],
      [url |-> "https://gist.github.com/x", lastVisitTime |-> Cutoff0],
      [url |-> "not a url", visitCount |-> 2, lastVisitTime |-> T0],
      [url |-> "https://old.example.org/", visitCount |-> 9,
       lastVisitTime |-> Cutoff0 - 1],
      [url |-> "https://github.com/", visitCount |-> 10,
       lastVisitTime |-> T0],
      [url |-> "http://www.www.example.com:8080/p", visitCount |-> 0],
      [url |-> "https://gemini.google.com/app", visitCount |-> 30,
       lastVisitTime |-> T0],
      [url |-> "https://aws.amazon.com/console", visitCount |-> 11,
       lastVisitTime |-> T0 - DayLen],
      [url |-> "https://www.nytimes.com/section/health", visitCount |-> 2,
       lastVisitTime |-> T0] }

SeqsUpTo(S, n) == UNION {[1..k -> S] : k \in 0..n}

\* a block of n records of n distinct domains, all of one tier
BulkRecord(kind, i) ==
    [url |-> "https://" \o kind \o ToString(i) \o ".dev/",
     visitCount |-> (IF kind = "core" THEN coreToolThreshold ELSE 1) + (i % 3),
     lastVisitTime |-> T0]

Bulk(kind, n) == [i \in 1..n |-> BulkRecord(kind, i)]

Bulks ==
    { Bulk("core", 0), Bulk("core", coreToolsLimit), Bulk("core", coreToolsLimit + 1),
      Bulk("active", activeInterestsLimit), Bulk("active", MaxBulk),
      Bulk("core", coreToolsLimit + 1) \o Bulk("active", MaxBulk) }

\* every short sequence, and every block with at most one record before it
Inputs ==
    SeqsUpTo(Visits, MaxLen)
        \cup {free \o bulk : free \in SeqsUpTo(Visits, 1), bulk \in Bulks}

-----------------------------------------------------------------------------
(* Core functions of historyProcessor.js *)

\* JavaScript null; "<" is a forbidden host code point, so no hostname is Null
Null == "<null>"

\* !domain
Falsy(domain) == domain = Null \/ domain = ""

\* extractDomain returning the string itself when the URL constructor throws
extractDomain_rawOnThrow(url) ==
    IF UrlThrows(url) THEN url
    ELSE LET h == hostname(url)
         IN  IF StartsWith(h, "www.") THEN SubSeq(h, 5, Len(h)) ELSE h

extractDomain(url) ==
    IF UrlThrows(url) THEN Null
    ELSE LET h == hostname(url)
         IN  IF StartsWith(h, "www.") THEN SubSeq(h, 5, Len(h)) ELSE h

\* isBlocked without the parent-domain match
isBlocked_exactOnly(domain) ==
    IF Falsy(domain) THEN TRUE
    ELSE \E blocked \in blocklist : domain = blocked

isBlocked(domain) ==
    IF Falsy(domain) THEN TRUE
    ELSE \E blocked \in blocklist :
            domain = blocked \/ EndsWith(domain, "." \o blocked)

\* item.visitCount || 1 and item.lastVisitTime || 0
OrElse(item, field, default) ==
    IF field \in DOMAIN item /\ item[field] # 0 THEN item[field] ELSE default

Max(a, b) == IF a >= b THEN a ELSE b

\* extractDomain tabulated over the URLs of the inputs, so that each URL is
\* parsed once
Urls ==
    {v.url : v \in Visits}
        \cup {BulkRecord(kind, i).url : kind \in {"core", "active"}, i \in 1..MaxBulk + 1}

DomainOf == [url \in Urls |-> extractDomain(url)]

\* the records the loop of buildDomainFrequencyMap does not skip
Survives(item) ==
    LET domain == DomainOf[item.url]
    IN  ~(Falsy(domain) \/ isBlocked(domain))

\* Update keeping the lastVisitTime of the last record instead of the maximum
Update_lastSeen(entry, item) ==
    [domain |-> entry.domain,
     visitCount |-> entry.visitCount + OrElse(item, "visitCount", 1),
     lastVisit |-> OrElse(item, "lastVisitTime", 0),
     urls |-> entry.urls \cup {item.url}]

\* Update adding a record without visitCount as no visit
Update_orZero(entry, item) ==
    [domain |-> entry.domain,
     visitCount |-> entry.visitCount + OrElse(item, "visitCount", 0),
     lastVisit |-> Max(entry.lastVisit, OrElse(item, "lastVisitTime", 0)),
     urls |-> entry.urls \cup {item.url}]

\* Update keeping the lastVisitTime of the first record of the domain
Update_keepsFirst(entry, item) ==
    [domain |-> entry.domain,
     visitCount |-> entry.visitCount + OrElse(item, "visitCount", 1),
     lastVisit |-> IF entry.urls = {} THEN OrElse(item, "lastVisitTime", 0)
                   ELSE entry.lastVisit,
     urls |-> entry.urls \cup {item.url}]

\* the three assignments to the entry of the record's domain
Update(entry, item) ==
    [domain |-> entry.domain,
     visitCount |-> entry.visitCount + OrElse(item, "visitCount", 1),
     lastVisit |-> Max(entry.lastVisit, OrElse(item, "lastVisitTime", 0)),
     urls |-> entry.urls \cup {item.url}]

\* the entry of one domain when the loop ends: set to zeros at the first
\* surviving record of the domain, then updated by each of them in turn
EntryOf(domain, kept) ==
    LET own == SelectSeq(kept, LAMBDA item : DomainOf[item.url] = domain)
        F[i \in 0..Len(own)] ==
            IF i = 0
            THEN [domain |-> domain, visitCount |-> 0, lastVisit |-> 0, urls |-> {}]
            ELSE Update(F[i - 1], own[i])
    IN  F[Len(own)]

\* the Map as the sequence of its entries in insertion order
buildDomainFrequencyMap(items) ==
    LET kept == SelectSeq(items, Survives)
        keys == KeepFirst([i \in 1..Len(kept) |-> DomainOf[kept[i].url]])
    IN  [k \in 1..Len(keys) |-> EntryOf(keys[k], kept)]

\* the tier left in push order
SortByVisitCountDesc_unsorted(tier) == tier

\* a sort by descending visitCount that leaves equal counts in reverse order
SortByVisitCountDesc_tiesReversed(tier) ==
    LET n == Len(tier)
        Rank(i) ==
            1 + Cardinality({j \in 1..n :
                    \/ tier[j].visitCount > tier[i].visitCount
                    \/ tier[j].visitCount = tier[i].visitCount /\ j > i})
    IN  [k \in 1..n |-> tier[CHOOSE i \in 1..n : Rank(i) = k]]

\* Array.prototype.sort with (a, b) => b.visitCount - a.visitCount: higher
\* counts first, and, the sort being stable, equal counts in their old order
SortByVisitCountDesc(tier) ==
    LET n == Len(tier)
        Rank(i) ==
            1 + Cardinality({j \in 1..n :
                    \/ tier[j].visitCount > tier[i].visitCount
                    \/ tier[j].visitCount = tier[i].visitCount /\ j < i})
    IN  [k \in 1..n |-> tier[CHOOSE i \in 1..n : Rank(i) = k]]

\* TierOf with the recency test before the visit-count test
TierOf_activeFirst(data, activeCutoff) ==
    IF data.lastVisit >= activeCutoff THEN "active"
    ELSE IF data.visitCount >= coreToolThreshold THEN "core"
    ELSE "light"

\* TierOf taking a domain as core only while it is recently visited
TierOf_coreWhileRecent(data, activeCutoff) ==
    IF data.visitCount >= coreToolThreshold /\ data.lastVisit >= activeCutoff THEN "core"
    ELSE IF data.lastVisit >= activeCutoff THEN "active"
    ELSE "light"

\* the tier one entry of the map is pushed to
TierOf(data, activeCutoff) ==
    IF data.visitCount >= coreToolThreshold THEN "core"
    ELSE IF data.lastVisit >= activeCutoff THEN "active"
    ELSE "light"

Entry(data) ==
    [domain |-> data.domain, visitCount |-> data.visitCount,
     lastVisit |-> data.lastVisit]

\* the entries pushed to one tier, in the map's iteration order
Pushed(map, tier, activeCutoff) ==
    LET sel == SelectSeq(map, LAMBDA data : TierOf(data, activeCutoff) = tier)
    IN  [i \in 1..Len(sel) |-> Entry(sel[i])]

classifyDomains(map, now) ==
    LET activeCutoff == now - activeDaysWindow * DayLen
    IN  [core   |-> SortByVisitCountDesc(Pushed(map, "core", activeCutoff)),
         active |-> SortByVisitCountDesc(Pushed(map, "active", activeCutoff)),
         light  |-> SortByVisitCountDesc(Pushed(map, "light", activeCutoff))]

\* SomeMatch with the exact comparison only
SomeMatch_exactOnly(domains, domain) ==
    \E k \in 1..Len(domains) : domain = domains[k]

\* SomeMatch comparing by inclusion, either way round
SomeMatch_includes(domains, domain) ==
    \E k \in 1..Len(domains) :
        Includes(domain, domains[k]) \/ Includes(domains[k], domain)

\* domains.some(d => domain === d || domain.endsWith("." + d))
SomeMatch(domains, domain) ==
    \E k \in 1..Len(domains) :
        domain = domains[k] \/ EndsWith(domain, "." \o domains[k])

SeqHas(seq, x) == \E i \in 1..Len(seq) : seq[i] = x

\* the inner loop of detectTopics for one domain: the topics it adds to the
\* Set, in the order of the table
Added(table, domain) ==
    LET hit == SelectSeq(table, LAMBDA t : SomeMatch(t.domains, domain))
    IN  [k \in 1..Len(hit) |-> hit[k].topic]

\* every detectedTopics.add of the two loops, for the domains lo..hi of the map
RECURSIVE Adds(_, _, _, _)
Adds(map, table, lo, hi) ==
    IF lo > hi THEN <<>>
    ELSE IF lo = hi THEN Added(table, map[lo].domain)
    ELSE LET mid == (lo + hi) \div 2
         IN  Adds(map, table, lo, mid) \o Adds(map, table, mid + 1, hi)

\* detectTopics with the loop over the table outside the loop over the map
detectTopics_tableOrder(map, table) ==
    LET hit == SelectSeq(table, LAMBDA t :
                   \E i \in 1..Len(map) : SomeMatch(t.domains, map[i].domain))
    IN  [k \in 1..Len(hit) |-> hit[k].topic]

\* Array.from(detectedTopics)
detectTopics(map, table) == KeepFirst(Adds(map, table, 1, Len(map)))

\* Array.prototype.slice(0, n)
Slice(seq, n) == SubSeq(seq, 1, IF Len(seq) < n THEN Len(seq) ELSE n)

Domains(entries) == [i \in 1..Len(entries) |-> entries[i].domain]

\* the object buildContextProfile returns, from its locals; generatedAt stands
\* for the ISO-8601 string of the instant genAt
\* ProfileOf listing the light tier after the active one
ProfileOf_lightListed(map, cls, tps, genAt) ==
    [generatedAt |-> genAt,
     totalDomainsAnalyzed |-> Len(map),
     topics |-> tps,
     coreTools |-> Domains(Slice(cls.core, coreToolsLimit)),
     activeInterests |-> Domains(Slice(cls.active \o cls.light, activeInterestsLimit))]

ProfileOf(map, cls, tps, genAt) ==
    [generatedAt |-> genAt,
     totalDomainsAnalyzed |-> Len(map),
     topics |-> tps,
     coreTools |-> Domains(Slice(cls.core, coreToolsLimit)),
     activeInterests |-> Domains(Slice(cls.active, activeInterestsLimit))]

\* now is what Date.now() returns in classifyDomains, genAt what new Date()
\* is in the returned object
buildContextProfile(items, table, now, genAt) ==
    LET map == buildDomainFrequencyMap(items)
    IN  ProfileOf(map, classifyDomains(map, now), detectTopics(map, table), genAt)

Header == "## Personal Context (auto-generated from browsing history)"

\* new Date(generatedAt).toLocaleDateString(): the calendar day only
toLocaleDateString(genAt) == "day " \o ToString(genAt \div DayLen)

\* formatProfileForInjection emitting nothing but the separator for a profile
\* with nothing to list
formatProfileForInjection_skipEmpty(p) ==
    IF Len(p.topics) = 0 /\ Len(p.coreTools) = 0 /\ Len(p.activeInterests) = 0
    THEN Join(<<"", "---", "">>, "\n")
    ELSE Join(<<Header, "">>, "\n")

\* formatProfileForInjection pushing the three labelled lines without the
\* length tests
formatProfileForInjection_allLines(p) ==
    Join(<<Header,
           "_Last updated: " \o toLocaleDateString(p.generatedAt) \o "_",
           "",
           "**Interest areas:** " \o Join(p.topics, ", "),
           "**Tools I use regularly:** " \o Join(p.coreTools, ", "),
           "**Recently active on:** " \o Join(p.activeInterests, ", "),
           "", "---", "">>, "\n")

formatProfileForInjection(p) ==
    LET l1 == <<Header,
                "_Last updated: " \o toLocaleDateString(p.generatedAt) \o "_",
                "">>
        l2 == IF Len(p.topics) > 0
              THEN Append(l1, "**Interest areas:** " \o Join(p.topics, ", "))
              ELSE l1
        l3 == IF Len(p.coreTools) > 0
              THEN Append(l2, "**Tools I use regularly:** " \o Join(p.coreTools, ", "))
              ELSE l2
        l4 == IF Len(p.activeInterests) > 0
              THEN Append(l3, "**Recently active on:** " \o Join(p.activeInterests, ", "))
              ELSE l3
    IN  Join(l4 \o <<"", "---", "">>, "\n")

-----------------------------------------------------------------------------
(* The pipeline inlined in the combined background script,                 *)
(* src/unnamed/part_002, translated statement by statement: each loop is a *)
(* fold over what it iterates.                                             *)

PROCESSOR_CONFIG ==
    [activeDaysWindow |-> 30,
     coreToolThreshold |-> 10,
     blocklist |->
        { "google.com", "google.co.uk", "bing.com", "duckduckgo.com",
          "googletagmanager.com", "doubleclick.net", "googlesyndication.com",
          "facebook.com", "instagram.com", "twitter.com", "x.com",
          "youtube.com",
          "localhost", "127.0.0.1",
          "accounts.google.com", "login.microsoftonline.com",
          "amazon.com" },
     topicMap |->
        << [topic |-> "Product Management", domains |->
              << "linear.app", "notion.so", "jira.atlassian.com", "productboard.com",
                 "miro.com", "figma.com", "amplitude.com", "mixpanel.com",
                 "producthunt.com", "lenny.substack.com" >>],
           [topic |-> "AI & Machine Learning", domains |->
              << "claude.ai", "chatgpt.com", "openai.com", "gemini.google.com",
                 "huggingface.co", "arxiv.org", "deepmind.com", "anthropic.com",
                 "replicate.com", "perplexity.ai" >>],
           [topic |-> "Finance & Investing", domains |->
              << "bloomberg.com", "wsj.com", "ft.com", "schwab.com",
                 "robinhood.com", "coinbase.com", "yahoo.com", "marketwatch.com" >>],
           [topic |-> "Real Estate", domains |->
              << "zillow.com", "redfin.com", "realtor.com", "apartments.com",
                 "streeteasy.com", "compass.com" >>],
           [topic |-> "Fashion & Style", domains |->
              << "vogue.com", "net-a-porter.com", "ssense.com", "matchesfashion.com",
                 "farfetch.com", "theoutnet.com", "shopbop.com", "revolve.com",
                 "whowhatwear.com", "byrdie.com" >>],
           [topic |-> "Travel", domains |->
              << "google.com/travel", "expedia.com", "kayak.com", "airbnb.com",
                 "tripadvisor.com", "booking.com", "skyscanner.com", "hotels.com" >>],
           [topic |-> "Health & Wellness", domains |->
              << "myfitnesspal.com", "peloton.com", "headspace.com", "calm.com",
                 "healthline.com", "webmd.com", "nytimes.com/section/health" >>],
           [topic |-> "Engineering & Tech", domains |->
              << "github.com", "stackoverflow.com", "docs.python.org",
                 "developer.mozilla.org", "npmjs.com", "vercel.com", "netlify.com",
                 "aws.amazon.com" >>],
           [topic |-> "News & Media", domains |->
              << "nytimes.com", "theguardian.com", "bbc.com", "theatlantic.com",
                 "newyorker.com", "politico.com", "axios.com" >>] >>]

\* Body applied to the value of an expression that is evaluated once
Once(value, Body(_)) == CHOOSE result \in {Body(v) : v \in {value}} : TRUE

\* hostname.replace(/^www\./, ""), or null when new URL(url) throws
InlinedExtractDomain(url) ==
    IF HasScheme(url) /\ TakeHost(AfterScheme(url)) # ""
    THEN LET host == ToLower(TakeHost(AfterScheme(url)))
         IN  IF Len(host) >= 4 /\ SubSeq(host, 1, 4) = "www."
             THEN SubSeq(host, 5, Len(host))
             ELSE host
    ELSE Null

\* InlinedExtractDomain tabulated over the URLs of the inputs
InlinedDomainOf == [url \in Urls |-> InlinedExtractDomain(url)]

\* InlinedIsBlocked testing the entries of the blocklist themselves only
InlinedIsBlocked_entriesOnly(domain) ==
    \/ domain = Null
    \/ domain = ""
    \/ domain \in PROCESSOR_CONFIG.blocklist

InlinedIsBlocked(domain) ==
    \/ domain = Null
    \/ domain = ""
    \/ \E blocked \in PROCESSOR_CONFIG.blocklist :
          \/ domain = blocked
          \/ /\ Len(domain) > Len(blocked)
             /\ SubSeq(domain, Len(domain) - Len(blocked), Len(domain)) = "." \o blocked

\* the position of the key in the Map, 0 when map.has(domain) is false
KeyIndex(map, domain) ==
    IF \E k \in 1..Len(map) : map[k].domain = domain
    THEN CHOOSE k \in 1..Len(map) : map[k].domain = domain
    ELSE 0

\* one iteration of the loop of buildDomainFrequencyMap
InlinedVisit(map, item) ==
    LET domain == InlinedDomainOf[item.url]
    IN  IF domain = Null \/ domain = "" \/ InlinedIsBlocked(domain) THEN map
        ELSE LET had == IF KeyIndex(map, domain) = 0
                        THEN Append(map, [domain |-> domain, visitCount |-> 0,
                                          lastVisit |-> 0, urls |-> {}])
                        ELSE map
                 k == KeyIndex(had, domain)
                 count == IF "visitCount" \in DOMAIN item /\ item.visitCount # 0
                          THEN item.visitCount ELSE 1
                 time == IF "lastVisitTime" \in DOMAIN item /\ item.lastVisitTime # 0
                         THEN item.lastVisitTime ELSE 0
             IN  [had EXCEPT ![k].visitCount = @ + count,
                             ![k].lastVisit = IF @ >= time THEN @ ELSE time,
                             ![k].urls = @ \cup {item.url}]

\* the iterations lo..hi of the loop, in order, starting from map
RECURSIVE InlinedVisits(_, _, _, _)
InlinedVisits(map, historyItems_, lo, hi) ==
    IF lo > hi THEN map
    ELSE IF lo = hi THEN InlinedVisit(map, historyItems_[lo])
    ELSE LET mid == (lo + hi) \div 2
         IN  Once(InlinedVisits(map, historyItems_, lo, mid),
                  LAMBDA half : InlinedVisits(half, historyItems_, mid + 1, hi))

InlinedBuildDomainFrequencyMap(historyItems_) ==
    InlinedVisits(<<>>, historyItems_, 1, Len(historyItems_))

\* one iteration of the first loop of classifyDomains
InlinedPush(result, data, activeCutoff) ==
    LET entry == [domain |-> data.domain, visitCount |-> data.visitCount,
                  lastVisit |-> data.lastVisit]
    IN  IF data.visitCount >= PROCESSOR_CONFIG.coreToolThreshold
        THEN [result EXCEPT !.core = Append(@, entry)]
        ELSE IF data.lastVisit >= activeCutoff
        THEN [result EXCEPT !.active = Append(@, entry)]
        ELSE [result EXCEPT !.light = Append(@, entry)]

\* tier.sort((a, b) => b.visitCount - a.visitCount) as a stable insertion
\* sort: each entry goes after the entries that do not have fewer visits
InlinedSort(tier) ==
    LET Insert(sorted, e) ==
            LET before == SelectSeq(sorted, LAMBDA x : x.visitCount >= e.visitCount)
                after == SelectSeq(sorted, LAMBDA x : x.visitCount < e.visitCount)
            IN  before \o <<e>> \o after
        sorted[i \in 0..Len(tier)] ==
            IF i = 0 THEN <<>> ELSE Insert(sorted[i - 1], tier[i])
    IN  sorted[Len(tier)]

InlinedClassifyDomains(domainMap_, now) ==
    LET activeCutoff == now - PROCESSOR_CONFIG.activeDaysWindow * DayLen
        result[i \in 0..Len(domainMap_)] ==
            IF i = 0 THEN [core |-> <<>>, active |-> <<>>, light |-> <<>>]
            ELSE InlinedPush(result[i - 1], domainMap_[i], activeCutoff)
    IN  [core   |-> InlinedSort(result[Len(domainMap_)].core),
         active |-> InlinedSort(result[Len(domainMap_)].active),
         light  |-> InlinedSort(result[Len(domainMap_)].light)]

\* the inner loop of detectTopics for one domain, from topic t of the table
\* on: detectedTopics.add(topic) when some pattern matches
RECURSIVE InlinedAddTopics(_, _, _, _)
InlinedAddTopics(detectedTopics, table, t, domain) ==
    IF t > Len(table) THEN detectedTopics
    ELSE LET hit == \E k \in 1..Len(table[t].domains) :
                        \/ domain = table[t].domains[k]
                        \/ EndsWith(domain, "." \o table[t].domains[k])
             added == IF hit /\ ~SeqHas(detectedTopics, table[t].topic)
                      THEN Append(detectedTopics, table[t].topic)
                      ELSE detectedTopics
         IN  InlinedAddTopics(added, table, t + 1, domain)

\* the iterations lo..hi of the outer loop of detectTopics, in order
RECURSIVE InlinedScan(_, _, _, _, _)
InlinedScan(detectedTopics, domainMap_, table, lo, hi) ==
    IF lo > hi THEN detectedTopics
    ELSE IF lo = hi THEN InlinedAddTopics(detectedTopics, table, 1, domainMap_[lo].domain)
    ELSE LET mid == (lo + hi) \div 2
         IN  Once(InlinedScan(detectedTopics, domainMap_, table, lo, mid),
                  LAMBDA half : InlinedScan(half, domainMap_, table, mid + 1, hi))

InlinedDetectTopics(domainMap_, table) ==
    InlinedScan(<<>>, domainMap_, table, 1, Len(domainMap_))

InlinedBuildContextProfile(historyItems_, table, now, genAt) ==
    LET domainMap_ == InlinedBuildDomainFrequencyMap(historyItems_)
        classified_ == InlinedClassifyDomains(domainMap_, now)
        topics_ == InlinedDetectTopics(domainMap_, table)
    IN  [generatedAt |-> genAt,
         totalDomainsAnalyzed |-> Len(domainMap_),
         topics |-> topics_,
         coreTools |-> Domains(Slice(classified_.core, 15)),
         activeInterests |-> Domains(Slice(classified_.active, 20))]

InlinedFormatProfileForInjection(p) ==
    LET head == <<"## Personal Context (auto-generated from browsing history)",
                  "_Last updated: " \o toLocaleDateString(p.generatedAt) \o "_",
                  "">>
        areas == IF Len(p.topics) > 0
                 THEN <<"**Interest areas:** " \o Join(p.topics, ", ")>> ELSE <<>>
        tools == IF Len(p.coreTools) > 0
                 THEN <<"**Tools I use regularly:** " \o Join(p.coreTools, ", ")>> ELSE <<>>
        recent == IF Len(p.activeInterests) > 0
                  THEN <<"**Recently active on:** " \o Join(p.activeInterests, ", ")>>
                  ELSE <<>>
    IN  Join(head \o areas \o tools \o recent \o <<"", "---", "">>, "\n")

-----------------------------------------------------------------------------
(* Values of the pipeline before it has run *)

Absent == [absent |-> TRUE]

NoTiers == [core |-> <<>>, active |-> <<>>, light |-> <<>>]

-----------------------------------------------------------------------------
(* The background state before the service worker has run *)

BgInit ==
    /\ clock = T0
    /\ alarm = FALSE
    /\ installer = "idle"
    /\ slot = Absent
    /\ cycles = <<>>
    /\ writeLog = 0
    /\ unhandled = 0
    /\ reads = <<>>

PipeIdle ==
    /\ historyItems = <<>>
    /\ nowAt = T0
    /\ stage = "idle"
    /\ domainMap = <<>>
    /\ classified = NoTiers
    /\ topics = <<>>
    /\ profile = Absent
    /\ formatted = ""

\* the content script before it has run on a page
NoElement == [present |-> FALSE, tagName |-> "", content |-> "", writes |-> 0, events |-> 0]

NoLocation == [hostname |-> "", pathname |-> ""]

PageIdle ==
    /\ href = NoLocation
    /\ lastUrl = NoLocation
    /\ elements = [sel \in {"input", "inputAlt"} |-> NoElement]
    /\ chains = <<>>

-----------------------------------------------------------------------------
(* SpecPipeline: buildContextProfile and formatProfileForInjection applied  *)
(* to every input of Inputs, at every clock value of Nows, under every     *)
(* table of TopicTables.                                                   *)

InitPipeline ==
    /\ topicMap \in TopicTables
    /\ historyItems \in Inputs
    /\ nowAt \in Nows
    /\ stage = "input"
    /\ domainMap = <<>>
    /\ classified = NoTiers
    /\ topics = <<>>
    /\ profile = Absent
    /\ formatted = ""
    /\ BgInit
    /\ PageIdle

\* one call of buildContextProfile: its locals and its result
Build ==
    /\ stage = "input"
    /\ domainMap' = buildDomainFrequencyMap(historyItems)
    /\ classified' = classifyDomains(domainMap', nowAt)
    /\ topics' = detectTopics(domainMap', topicMap)
    /\ profile' = ProfileOf(domainMap', classified', topics', nowAt)
    /\ stage' = "built"
    /\ UNCHANGED <<topicMap, historyItems, nowAt, formatted>>
    /\ UNCHANGED <<bgVars, pageVars>>

\* one call of formatProfileForInjection on the profile just built
Format ==
    /\ stage = "built"
    /\ formatted' = formatProfileForInjection(profile)
    /\ stage' = "formatted"
    /\ UNCHANGED <<topicMap, historyItems, nowAt, domainMap, classified, topics, profile>>
    /\ UNCHANGED <<bgVars, pageVars>>

NextPipeline == Build \/ Format

SpecPipeline == InitPipeline /\ [][NextPipeline]_vars

-----------------------------------------------------------------------------
(* The background service worker, background.js.  chrome.history,          *)
(* chrome.storage.local and chrome.alarms are the environment: a call to   *)
(* one of them is pending until the environment resolves or rejects it.    *)
(* onStartup, which only reads and recreates the alarm, is not part of the *)
(* model.                                                                  *)

HISTORY_DAYS_BACK == 90

\* the startTime of the query a cycle starting at now issues
startTime(now) == now - HISTORY_DAYS_BACK * DayLen

\* visits chrome.history holds
NotionVisit ==
    [url |-> "https://www.notion.so/a", visitCount |-> 12,
     lastVisitTime |-> T0 - 60 * DayLen]

VogueVisit ==
    [url |-> "https://vogue.com/x", visitCount |-> 1,
     lastVisitTime |-> T0 - 5 * DayLen]

\* a record whose url the URL constructor rejects
MalformedVisit ==
    [url |-> "not a url", visitCount |-> 2, lastVisitTime |-> T0 - DayLen]

\* what chrome.history.search may resolve with: no visit, or visits not
\* older than the startTime of any query
QueryResults ==
    { items \in {<<>>, <<MalformedVisit, NotionVisit>>, <<VogueVisit>>} :
        \A i \in 1..Len(items) : items[i].lastVisitTime >= startTime(T0 + MaxTicks) }

CycleIds == 1..Len(cycles)

InFlight(c) == cycles[c].pc \in {"query", "write"}

\* the promise syncHistory returns never rejects: the try/catch encloses the
\* whole body
SyncHistoryRejects(outcome) == FALSE

\* syncHistory().then(() => sendResponse({success: true}))
\*              .catch(error => sendResponse({success: false, ...}))
SyncNowResponse(outcome) ==
    IF SyncHistoryRejects(outcome) THEN [success |-> FALSE] ELSE [success |-> TRUE]

\* what runs when the promise of syncHistory settles: the continuation of
\* the caller that awaits it
Responses(trigger, outcome) ==
    IF trigger = "syncNow" THEN <<SyncNowResponse(outcome)>> ELSE <<>>

InstallerAfter(trigger) == IF trigger = "install" THEN "done" ELSE installer

\* syncHistory up to its first await: Date.now(), then chrome.history.search
StartCycle(trigger) ==
    /\ Len(cycles) + Len(reads) < MaxCycles
    /\ cycles' = Append(cycles,
          [trigger |-> trigger,
           pc |-> "query",
           historyItems |-> <<>>,
           overlaps |-> \E c \in CycleIds : InFlight(c),
           queries |-> 1,
           writes |-> 0,
           profile |-> Absent,
           outcome |-> "pending",
           responses |-> <<>>])

\* what Date.now() may return: the clock does not run backwards
DateNow == clock..(T0 + MaxTicks)

\* onInstalled up to its first await: chrome.alarms.create
Installed ==
    /\ installer = "idle"
    /\ installer' = "creating"
    /\ UNCHANGED <<clock, alarm, slot, cycles, writeLog, unhandled>>
    /\ UNCHANGED <<reads, pipeVars, pageVars>>

\* chrome.alarms.create resolves; onInstalled goes on to call syncHistory
AlarmCreated ==
    /\ installer = "creating"
    /\ alarm' = TRUE
    /\ installer' = "syncing"
    /\ StartCycle("install")
    /\ UNCHANGED <<clock, slot, writeLog, unhandled>>
    /\ UNCHANGED <<reads, pipeVars, pageVars>>

\* chrome.alarms.create rejects: the promise of the async listener rejects
\* and nothing handles it
AlarmCreateFails ==
    /\ installer = "creating"
    /\ installer' = "rejected"
    /\ unhandled' = unhandled + 1
    /\ UNCHANGED <<clock, alarm, slot, cycles, writeLog>>
    /\ UNCHANGED <<reads, pipeVars, pageVars>>

\* onAlarm for the alarm dailyHistorySync
AlarmFires ==
    /\ alarm
    /\ StartCycle("alarm")
    /\ UNCHANGED <<clock, alarm, installer, slot, writeLog, unhandled>>
    /\ UNCHANGED <<reads, pipeVars, pageVars>>

\* SyncNow calling sendResponse without waiting for syncHistory
SyncNow_respondsAtOnce ==
    /\ Len(cycles) + Len(reads) < MaxCycles
    /\ cycles' = Append(cycles,
          [trigger |-> "syncNow",
           pc |-> "query",
           historyItems |-> <<>>,
           overlaps |-> \E c \in CycleIds : InFlight(c),
           queries |-> 1,
           writes |-> 0,
           profile |-> Absent,
           outcome |-> "pending",
           responses |-> <<[success |-> TRUE]>>])
    /\ UNCHANGED <<clock, alarm, installer, slot, writeLog, unhandled>>
    /\ UNCHANGED <<reads, pipeVars, pageVars>>

\* onMessage with action syncNow
SyncNow ==
    /\ StartCycle("syncNow")
    /\ UNCHANGED <<clock, alarm, installer, slot, writeLog, unhandled>>
    /\ UNCHANGED <<reads, pipeVars, pageVars>>

\* chrome.history.search resolves: the profile is built and
\* chrome.storage.local.set is called with it, in one turn
HistoryResolves(c) ==
    /\ cycles[c].pc = "query"
    /\ \E items \in QueryResults, now \in DateNow :
          /\ clock' = now
          /\ cycles' = [cycles EXCEPT ![c] =
                [@ EXCEPT !.pc = "write",
                          !.historyItems = items,
                          !.profile = buildContextProfile(items, topicMap, now, now),
                          !.writes = @ + 1]]
    /\ UNCHANGED <<alarm, installer, slot, writeLog, unhandled>>
    /\ UNCHANGED <<reads, pipeVars, pageVars>>

\* HistoryRejects going on to store the profile of an empty history
HistoryRejects_storesEmpty(c) ==
    /\ cycles[c].pc = "query"
    /\ cycles' = [cycles EXCEPT ![c] =
          [@ EXCEPT !.pc = "done",
                    !.outcome = "queryFailed",
                    !.profile = buildContextProfile(<<>>, topicMap, clock, clock),
                    !.writes = @ + 1,
                    !.responses = @ \o Responses(cycles[c].trigger, "queryFailed")]]
    /\ slot' = cycles'[c].profile
    /\ installer' = InstallerAfter(cycles[c].trigger)
    /\ UNCHANGED <<clock, alarm, writeLog, unhandled>>
    /\ UNCHANGED <<reads, pipeVars, pageVars>>

\* HistoryRejects issuing the query a second time before giving up
HistoryRejects_retries(c) ==
    /\ cycles[c].pc = "query"
    /\ cycles' = [cycles EXCEPT ![c] =
          IF cycles[c].queries < 2
          THEN [@ EXCEPT !.queries = @ + 1]
          ELSE [@ EXCEPT !.pc = "done",
                         !.outcome = "queryFailed",
                         !.responses = @ \o Responses(cycles[c].trigger, "queryFailed")]]
    /\ installer' = IF cycles'[c].pc = "done" THEN InstallerAfter(cycles[c].trigger)
                    ELSE installer
    /\ UNCHANGED <<clock, alarm, slot, writeLog, unhandled>>
    /\ UNCHANGED <<reads, pipeVars, pageVars>>

\* chrome.history.search rejects: the catch block logs and syncHistory ends
HistoryRejects(c) ==
    /\ cycles[c].pc = "query"
    /\ cycles' = [cycles EXCEPT ![c] =
          [@ EXCEPT !.pc = "done",
                    !.outcome = "queryFailed",
                    !.responses = @ \o Responses(cycles[c].trigger, "queryFailed")]]
    /\ installer' = InstallerAfter(cycles[c].trigger)
    /\ UNCHANGED <<clock, alarm, slot, writeLog, unhandled>>
    /\ UNCHANGED <<reads, pipeVars, pageVars>>

\* the argument of chrome.storage.local.set merged into the stored profile
\* instead of replacing it
Stored_merged(prior, new) ==
    IF prior = Absent THEN new
    ELSE [new EXCEPT !.topics = prior.topics]

\* the stored profile kept when it was generated later than the new one
Stored_newest(prior, new) ==
    IF prior # Absent /\ prior.generatedAt > new.generatedAt THEN prior ELSE new

\* the value under STORAGE_KEY after set({[STORAGE_KEY]: profile}): the whole
\* profile object of this cycle
Stored(prior, new) == new

\* chrome.storage.local.set resolves: the slot holds the value, syncHistory
\* logs and ends
StorageSetResolves(c) ==
    /\ cycles[c].pc = "write"
    /\ slot' = Stored(slot, cycles[c].profile)
    /\ writeLog' = c
    /\ cycles' = [cycles EXCEPT ![c] =
          [@ EXCEPT !.pc = "done",
                    !.outcome = "saved",
                    !.responses = @ \o Responses(cycles[c].trigger, "saved")]]
    /\ installer' = InstallerAfter(cycles[c].trigger)
    /\ UNCHANGED <<clock, alarm, unhandled>>
    /\ UNCHANGED <<reads, pipeVars, pageVars>>

\* chrome.storage.local.set rejects: nothing was stored, the catch block logs
\* and syncHistory ends
StorageSetRejects(c) ==
    /\ cycles[c].pc = "write"
    /\ cycles' = [cycles EXCEPT ![c] =
          [@ EXCEPT !.pc = "done",
                    !.outcome = "writeFailed",
                    !.responses = @ \o Responses(cycles[c].trigger, "writeFailed")]]
    /\ installer' = InstallerAfter(cycles[c].trigger)
    /\ UNCHANGED <<clock, alarm, slot, writeLog, unhandled>>
    /\ UNCHANGED <<reads, pipeVars, pageVars>>

\* the value null of a response
NullValue == [null |-> TRUE]

ReadIds == 1..Len(reads)

\* result[CONFIG.STORAGE_KEY] || null
getProfileResponse(result) ==
    [profile |-> IF result = Absent THEN NullValue ELSE result]

\* formatProfileForInjection(profile) if (profile), else null
getFormattedProfileResponse(result) ==
    [formatted |-> IF result = Absent THEN Null ELSE formatProfileForInjection(result)]

ResponseTo(action, result) ==
    IF action = "getProfile" THEN getProfileResponse(result)
    ELSE getFormattedProfileResponse(result)

\* onMessage with action getProfile or getFormattedProfile up to
\* chrome.storage.local.get; the listener returns true
StartRead(action) ==
    /\ Len(cycles) + Len(reads) < MaxCycles
    /\ reads' = Append(reads,
          [action |-> action, pc |-> "read", outcome |-> "pending", responses |-> <<>>])
    /\ UNCHANGED <<clock, alarm, installer, slot, cycles, writeLog, unhandled>>
    /\ UNCHANGED <<pipeVars, pageVars>>

GetProfile == StartRead("getProfile")

GetFormattedProfile == StartRead("getFormattedProfile")

\* the profile the latest cycle has built, stored or not
NewestBuilt ==
    LET built == {c \in CycleIds : cycles[c].profile # Absent}
    IN  IF built = {} THEN Absent
        ELSE cycles[CHOOSE c \in built : \A d \in built : d <= c].profile

\* StorageGetResolves answering with the profile of the latest cycle, in
\* flight or not
StorageGetResolves_newestBuilt(r) ==
    /\ reads[r].pc = "read"
    /\ reads' = [reads EXCEPT ![r] =
          [@ EXCEPT !.pc = "done",
                    !.outcome = "answered",
                    !.responses = @ \o <<ResponseTo(reads[r].action, NewestBuilt)>>]]
    /\ UNCHANGED <<clock, alarm, installer, slot, cycles, writeLog, unhandled>>
    /\ UNCHANGED <<pipeVars, pageVars>>

\* chrome.storage.local.get succeeds: the callback runs with the stored items
\* and sends the response
StorageGetResolves(r) ==
    /\ reads[r].pc = "read"
    /\ reads' = [reads EXCEPT ![r] =
          [@ EXCEPT !.pc = "done",
                    !.outcome = "answered",
                    !.responses = @ \o <<ResponseTo(reads[r].action, slot)>>]]
    /\ UNCHANGED <<clock, alarm, installer, slot, cycles, writeLog, unhandled>>
    /\ UNCHANGED <<pipeVars, pageVars>>

\* chrome.storage.local.get fails: the callback runs with result undefined
\* and chrome.runtime.lastError set; result[CONFIG.STORAGE_KEY] throws a
\* TypeError before sendResponse is reached
StorageGetFails(r) ==
    /\ reads[r].pc = "read"
    /\ reads' = [reads EXCEPT ![r] =
          [@ EXCEPT !.pc = "done", !.outcome = "threw"]]
    /\ unhandled' = unhandled + 1
    /\ UNCHANGED <<clock, alarm, installer, slot, cycles, writeLog>>
    /\ UNCHANGED <<pipeVars, pageVars>>

Init ==
    /\ topicMap = DefaultTopicMap
    /\ PipeIdle
    /\ BgInit
    /\ PageIdle

Next ==
    \/ Installed
    \/ AlarmCreated
    \/ AlarmCreateFails
    \/ AlarmFires
    \/ SyncNow
    \/ \E c \in CycleIds : HistoryResolves(c)
    \/ \E c \in CycleIds : HistoryRejects(c)
    \/ \E c \in CycleIds : StorageSetResolves(c)
    \/ \E c \in CycleIds : StorageSetRejects(c)
    \/ GetProfile
    \/ GetFormattedProfile
    \/ \E r \in ReadIds : StorageGetResolves(r)
    \/ \E r \in ReadIds : StorageGetFails(r)

Spec == Init /\ [][Next]_vars

-----------------------------------------------------------------------------
(* The content script, content.js.  The page (its location and the elements *)
(* the selectors match) and the answer of the background script are the    *)
(* environment; a timer set by setTimeout is pending until it fires.       *)

MAX_RETRIES == 10

Marker == "## Personal Context"

\* pages the content script is loaded on, and where they navigate to: a
\* page of a supported platform, and a site that is one only under some paths
Locations ==
    { [hostname |-> "claude.ai", pathname |-> "/new"],
      [hostname |-> "x.com", pathname |-> "/home"],
      [hostname |-> "x.com", pathname |-> "/i/grok"] }

detectPlatform(location) ==
    IF Includes(location.hostname, "claude.ai") THEN "claude"
    ELSE IF Includes(location.hostname, "chatgpt.com")
              \/ Includes(location.hostname, "chat.openai.com") THEN "chatgpt"
    ELSE IF Includes(location.hostname, "x.com")
              /\ Includes(location.pathname, "grok") THEN "grok"
    ELSE IF Includes(location.hostname, "gemini.google.com") THEN "gemini"
    ELSE Null

selectors ==
    [claude  |-> [input |-> "div[contenteditable=\"true\"][data-placeholder]",
                  inputAlt |-> "fieldset textarea"],
     chatgpt |-> [input |-> "textarea[data-id]",
                  inputAlt |-> "#prompt-textarea"],
     grok    |-> [input |-> "div[contenteditable=\"true\"][role=\"textbox\"]",
                  inputAlt |-> "textarea"],
     gemini  |-> [input |-> "rich-textarea div[contenteditable=\"true\"]",
                  inputAlt |-> "textarea[aria-label]"]]

\* selectors[platform] || null
getSelectors(platform) ==
    IF platform \in DOMAIN selectors THEN selectors[platform] ELSE NullValue

\* document.querySelector with the selector named sel of the platform: the
\* element it matches, if the page has one
querySelector(sel) == IF elements[sel].present THEN sel ELSE Null

findInputElement(sels) ==
    LET input == querySelector("input")
    IN  IF input = Null /\ sels.inputAlt # "" THEN querySelector("inputAlt") ELSE input

\* existingContent.includes with a marker of another spelling
AlreadyInjected_otherCase(existingContent) ==
    Includes(existingContent, "## personal context")

\* existingContent.includes('## Personal Context')
AlreadyInjected(existingContent) == Includes(existingContent, Marker)

\* injectIntoTextarea writing the profile text after the existing content
injectIntoTextarea_appends(textarea, formattedProfile) ==
    LET existingContent == textarea.content
    IN  IF AlreadyInjected(existingContent) THEN textarea
        ELSE [textarea EXCEPT !.content = existingContent \o formattedProfile,
                              !.writes = @ + 1,
                              !.events = @ + 1]

\* the element after injectIntoTextarea(textarea, formattedProfile)
injectIntoTextarea(textarea, formattedProfile) ==
    LET existingContent == textarea.content
    IN  IF AlreadyInjected(existingContent) THEN textarea
        ELSE [textarea EXCEPT !.content = formattedProfile \o existingContent,
                              !.writes = @ + 1,
                              !.events = @ + 1]

\* the element after injectIntoContentEditable(element, formattedProfile);
\* content is the element's innerText
injectIntoContentEditable(element, formattedProfile) ==
    LET existingContent == IF element.content # "" THEN element.content ELSE ""
    IN  IF AlreadyInjected(existingContent) THEN element
        ELSE [element EXCEPT !.content = formattedProfile \o existingContent,
                             !.writes = @ + 1,
                             !.events = @ + 1]

\* the tag and the content of an element when the page creates it: the
\* element the first selector matches is a contenteditable div, empty or
\* holding text the user pasted; the other one is a textarea with a draft
ElementKinds ==
    [input    |-> { [tagName |-> "DIV", content |-> ""],
                    [tagName |-> "DIV", content |-> "note: " \o Marker \o " pasted"] },
     inputAlt |-> { [tagName |-> "TEXTAREA", content |-> "draft"] }]

\* the history behind the profile the background script holds
PageHistory == <<NotionVisit>>

\* what the callback of chrome.runtime.sendMessage may be called with: no
\* response, or the response of the getFormattedProfile handler
MessageResponses ==
    {Absent} \cup
    { getFormattedProfileResponse(result) :
        result \in {Absent, buildContextProfile(PageHistory, DefaultTopicMap, T0, T0)} }

ChainIds == 1..Len(chains)

\* init(): detectPlatform, then chrome.runtime.sendMessage
init ==
    LET platform == detectPlatform(href')
    IN  IF platform = Null THEN chains' = chains
        ELSE /\ Len(chains) < MaxInits
             /\ chains' = Append(chains,
                   [platform |-> platform, pc |-> "asking", text |-> Null,
                    retries |-> 0, lookups |-> 0, found |-> FALSE])

\* the content script is loaded into a page: init() runs and the
\* MutationObserver is registered
Load ==
    /\ href = NoLocation
    /\ href' \in Locations
    /\ lastUrl' = href'
    /\ init
    /\ UNCHANGED elements
    /\ UNCHANGED <<pipeVars, bgVars>>

\* the page navigates without reloading
Navigate ==
    /\ href # NoLocation
    /\ href' \in {loc \in Locations : loc.hostname = href.hostname /\ loc # href}
    /\ UNCHANGED <<lastUrl, elements, chains>>
    /\ UNCHANGED <<pipeVars, bgVars>>

\* the MutationObserver callback when the URL has changed
UrlChanged ==
    /\ href # NoLocation
    /\ href # lastUrl
    /\ href' = href
    /\ lastUrl' = href
    /\ init
    /\ UNCHANGED elements
    /\ UNCHANGED <<pipeVars, bgVars>>

\* the page creates the element a selector matches
ElementAppears(sel) ==
    /\ href # NoLocation
    /\ ~elements[sel].present
    /\ \E kind \in ElementKinds[sel] :
          elements' = [elements EXCEPT ![sel] =
              [present |-> TRUE, tagName |-> kind.tagName, content |-> kind.content,
               writes |-> 0, events |-> 0]]
    /\ UNCHANGED <<href, lastUrl, chains>>
    /\ UNCHANGED <<pipeVars, bgVars>>

\* response && response.formatted
HasProfile(response) ==
    /\ response # Absent
    /\ response.formatted # Null
    /\ response.formatted # ""

\* the callback of chrome.runtime.sendMessage; with a profile it calls
\* injectContext, which sets the first timer
ResponseArrives(ch) ==
    /\ chains[ch].pc = "asking"
    /\ \E response \in MessageResponses :
          chains' = [chains EXCEPT ![ch] =
              IF HasProfile(response) /\ getSelectors(chains[ch].platform) # NullValue
              THEN [@ EXCEPT !.pc = "timer", !.text = response.formatted]
              ELSE [@ EXCEPT !.pc = "stopped"]]
    /\ UNCHANGED <<href, lastUrl, elements>>
    /\ UNCHANGED <<pipeVars, bgVars>>

\* the element after the injection its tagName selects
Injected(element, formattedProfile) ==
    IF element.tagName = "TEXTAREA"
    THEN injectIntoTextarea(element, formattedProfile)
    ELSE injectIntoContentEditable(element, formattedProfile)

\* AttemptInjection comparing retries <= MAX_RETRIES
AttemptInjection_oneMore(ch) ==
    /\ chains[ch].pc = "timer"
    /\ LET input == findInputElement(getSelectors(chains[ch].platform))
           retries == chains[ch].retries + 1
       IN  IF input # Null
           THEN /\ elements' = [elements EXCEPT ![input] = Injected(@, chains[ch].text)]
                /\ chains' = [chains EXCEPT ![ch] =
                      [@ EXCEPT !.pc = "stopped", !.lookups = @ + 1, !.found = TRUE]]
           ELSE /\ elements' = elements
                /\ chains' = [chains EXCEPT ![ch] =
                      [@ EXCEPT !.pc = IF retries <= MAX_RETRIES THEN "timer" ELSE "stopped",
                                !.retries = retries,
                                !.lookups = @ + 1]]
    /\ UNCHANGED <<href, lastUrl>>
    /\ UNCHANGED <<pipeVars, bgVars>>

\* a timer fires: attemptInjection
AttemptInjection(ch) ==
    /\ chains[ch].pc = "timer"
    /\ LET input == findInputElement(getSelectors(chains[ch].platform))
           retries == chains[ch].retries + 1
       IN  IF input # Null
           THEN /\ elements' = [elements EXCEPT ![input] = Injected(@, chains[ch].text)]
                /\ chains' = [chains EXCEPT ![ch] =
                      [@ EXCEPT !.pc = "stopped", !.lookups = @ + 1, !.found = TRUE]]
           ELSE /\ elements' = elements
                /\ chains' = [chains EXCEPT ![ch] =
                      [@ EXCEPT !.pc = IF retries < MAX_RETRIES THEN "timer" ELSE "stopped",
                                !.retries = retries,
                                !.lookups = @ + 1]]
    /\ UNCHANGED <<href, lastUrl>>
    /\ UNCHANGED <<pipeVars, bgVars>>

InitContent ==
    /\ topicMap = DefaultTopicMap
    /\ PipeIdle
    /\ BgInit
    /\ PageIdle

NextContent ==
    \/ Load
    \/ Navigate
    \/ UrlChanged
    \/ \E sel \in DOMAIN elements : ElementAppears(sel)
    \/ \E ch \in ChainIds : ResponseArrives(ch)
    \/ \E ch \in ChainIds : AttemptInjection(ch)

SpecContent == InitContent /\ [][NextContent]_vars

\* a timer set by setTimeout fires: the page stays open, and the event loop
\* runs every timer that is due
TimerFires == \E ch \in ChainIds : AttemptInjection(ch)

SpecContentLive == SpecContent /\ WF_vars(TimerFires)

-----------------------------------------------------------------------------
(* Properties of the pipeline, checked under SpecPipeline *)

Built == stage \in {"built", "formatted"}

ActiveCutoff == nowAt - activeDaysWindow * DayLen

Keys(map) == {map[i].domain : i \in 1..Len(map)}

HasItemOf(domain) ==
    \E i \in 1..Len(historyItems) : DomainOf[historyItems[i].url] = domain

\* C1: no key of the map returned by buildDomainFrequencyMap equals an entry
\* of the exclusion set or ends with "." followed by an entry of it.
C1_ExclusionComplete ==
    \A d \in Keys(domainMap) : \A b \in blocklist :
        d # b /\ ~EndsWith(d, "." \o b)

\* a visit to mail.google.com and a visit that survives were aggregated
C1_Witness ==
    /\ Built
    /\ HasItemOf("mail.google.com")
    /\ Len(domainMap) > 0

Occurrences(tier, domain) ==
    Cardinality({k \in 1..Len(tier) : tier[k].domain = domain})

\* C2: classifyDomains puts every domain of the map in exactly one tier: core
\* iff visitCount >= coreToolThreshold; otherwise active iff lastVisit >= now -
\* activeDaysWindow; otherwise light.  Both conditions met means core only.
C2_TierPartition ==
    Built =>
        /\ \A i \in 1..Len(domainMap) :
              LET d == domainMap[i]
                  isCore == d.visitCount >= coreToolThreshold
                  isRecent == d.lastVisit >= ActiveCutoff
              IN  /\ Occurrences(classified.core, d.domain) = (IF isCore THEN 1 ELSE 0)
                  /\ Occurrences(classified.active, d.domain)
                        = (IF ~isCore /\ isRecent THEN 1 ELSE 0)
                  /\ Occurrences(classified.light, d.domain)
                        = (IF ~isCore /\ ~isRecent THEN 1 ELSE 0)
        /\ Len(classified.core) + Len(classified.active) + Len(classified.light)
              = Len(domainMap)

\* a core domain that is also recent, a domain with exactly the threshold
\* count, and an active domain last visited exactly at the cutoff
C2_Witness ==
    /\ Built
    /\ \E i \in 1..Len(classified.core) :
          /\ classified.core[i].visitCount = coreToolThreshold
          /\ classified.core[i].lastVisit >= ActiveCutoff
    /\ \E i \in 1..Len(classified.active) :
          classified.active[i].lastVisit = ActiveCutoff

Bijections(n) == {f \in [1..n -> 1..n] : \A i, j \in 1..n : f[i] = f[j] => i = j}

Swap(n, a, b) == [i \in 1..n |-> IF i = a THEN b ELSE IF i = b THEN a ELSE i]

\* every permutation of a short sequence; every swap of neighbours and the
\* reversal of a long one
Rearrangements(n) ==
    IF n <= MaxLen THEN Bijections(n)
    ELSE {Swap(n, a, a + 1) : a \in 1..n - 1} \cup {[i \in 1..n |-> n + 1 - i]}

Stats(map) ==
    {[domain |-> map[i].domain, visitCount |-> map[i].visitCount,
      lastVisit |-> map[i].lastVisit] : i \in 1..Len(map)}

\* C5: for two visit sequences that are permutations of each other,
\* buildDomainFrequencyMap returns the same domains with the same visitCount
\* and lastVisit.
C5_OrderIndependent ==
    stage = "built" =>
        \A f \in Rearrangements(Len(historyItems)) :
            Stats(buildDomainFrequencyMap([i \in 1..Len(historyItems) |-> historyItems[f[i]]]))
                = Stats(domainMap)

\* two different records of one domain, the later-visited one first
C5_Witness ==
    /\ stage = "built"
    /\ Len(historyItems) = 2
    /\ Len(domainMap) = 1
    /\ "lastVisitTime" \in DOMAIN historyItems[1]
    /\ "lastVisitTime" \in DOMAIN historyItems[2]
    /\ historyItems[1].lastVisitTime > historyItems[2].lastVisitTime

Matches(domain, pattern) == domain = pattern \/ EndsWith(domain, "." \o pattern)

\* C6: detectTopics returns topic T iff some domain of the map matches some
\* pattern of T's list; nothing else is returned.
C6_TopicsExact ==
    Built =>
        /\ \A t \in 1..Len(topicMap) :
              SeqHas(topics, topicMap[t].topic)
                  <=> \E d \in Keys(domainMap) :
                         \E k \in 1..Len(topicMap[t].domains) :
                             Matches(d, topicMap[t].domains[k])
        /\ \A i \in 1..Len(topics) :
              \E t \in 1..Len(topicMap) : topics[i] = topicMap[t].topic

\* one domain matching two topics, another matching through a subdomain, and
\* topics without a match
C6_Witness ==
    /\ Built
    /\ Keys(domainMap) = {"github.com", "gist.github.com"}
    /\ topics = <<"Product Management", "Engineering & Tech">>

Members(tierName) ==
    {i \in 1..Len(domainMap) :
        IF tierName = "core" THEN domainMap[i].visitCount >= coreToolThreshold
        ELSE /\ domainMap[i].visitCount < coreToolThreshold
             /\ domainMap[i].lastVisit >= ActiveCutoff}

\* listed holds the highest-visitCount members of the tier, at most limit
TopOfTier(listed, tierName, limit) ==
    LET members == Members(tierName)
        shown == {i \in members : SeqHas(listed, domainMap[i].domain)}
    IN  /\ Len(listed) <= limit
        /\ Cardinality(shown) = Len(listed)
        /\ \A k \in 1..Len(listed) : \E i \in shown : domainMap[i].domain = listed[k]
        /\ \A i \in members \ shown : \A j \in shown :
              domainMap[i].visitCount <= domainMap[j].visitCount
        /\ Cardinality(members) <= limit => shown = members

\* C7: coreTools has at most 15 entries and activeInterests at most 20; a
\* member of the tier left out has visitCount <= that of every listed one;
\* a tier with no more members than its limit is listed whole.
C7_Truncation ==
    Built =>
        /\ TopOfTier(profile.coreTools, "core", coreToolsLimit)
        /\ TopOfTier(profile.activeInterests, "active", activeInterestsLimit)

\* both tiers have more members than their limit
C7_Witness ==
    /\ Built
    /\ Cardinality(Members("core")) > coreToolsLimit
    /\ Cardinality(Members("active")) > activeInterestsLimit
    /\ Len(profile.coreTools) = coreToolsLimit
    /\ Len(profile.activeInterests) = activeInterestsLimit

\* C8: the text returned by formatProfileForInjection begins with the line
\* "## Personal Context (auto-generated from browsing history)", also for a
\* profile with no topics, tools or interests.
C8_HeaderFirst ==
    stage = "formatted" => StartsWith(formatted, Header \o "\n")

\* a profile with nothing to list was rendered
C8_Witness ==
    /\ stage = "formatted"
    /\ profile.topics = <<>>
    /\ profile.coreTools = <<>>
    /\ profile.activeInterests = <<>>

\* C13: no key of the aggregated domain map begins with the label "www.",
\* also when the host of a visit begins with several "www." labels.
C13_NoWwwKey ==
    \A d \in Keys(domainMap) : ~StartsWith(d, "www.")

\* the visitCount of a record, 0 when it has none
RecordCount(item) == IF "visitCount" \in DOMAIN item THEN item.visitCount ELSE 0

\* the records of historyItems whose URL maps to domain
RecordsOf(domain) ==
    SelectSeq(historyItems, LAMBDA item : DomainOf[item.url] = domain)

RECURSIVE SumOfVisits(_)
SumOfVisits(records) ==
    IF records = <<>> THEN 0
    ELSE Max(1, RecordCount(Head(records))) + SumOfVisits(Tail(records))

\* C14: the visitCount of every domain of the aggregated map is the sum, over
\* the records whose URL maps to the domain, of max(1, record.visitCount), a
\* record without visitCount or with visitCount 0 counting as 1.
C14_VisitCountIsSum ==
    Built =>
        \A i \in 1..Len(domainMap) :
            domainMap[i].visitCount = SumOfVisits(RecordsOf(domainMap[i].domain))

\* www.notion.so with count 12 and notion.so with count 3 gave notion.so 15
C14_Witness ==
    /\ Built
    /\ Len(RecordsOf("notion.so")) = 2
    /\ \E i \in 1..Len(domainMap) :
          domainMap[i].domain = "notion.so" /\ domainMap[i].visitCount = 15

\* clock values of a second cycle over the same records: at once, a second
\* later, and after more than the activity window
SecondNows == Nows \cup {T0 + (activeDaysWindow + 1) * DayLen}

\* the profile a cycle over the same records builds at the clock value t
Rebuilt(t) == buildContextProfile(historyItems, topicMap, t, t)

\* no domain below the core threshold has its last visit on different sides
\* of the activity cutoffs of the two cycles
SameWindow(t) ==
    \A i \in 1..Len(domainMap) :
        domainMap[i].visitCount < coreToolThreshold
            => (domainMap[i].lastVisit >= nowAt - activeDaysWindow * DayLen
                   <=> domainMap[i].lastVisit >= t - activeDaysWindow * DayLen)

\* C15 as stated: two cycles over the same visit records build profiles with
\* equal topics, coreTools, activeInterests and totalDomainsAnalyzed, whatever
\* the time between them.
C15_SameRecordsSameProfile ==
    Built =>
        \A t \in SecondNows :
            LET second == Rebuilt(t)
            IN  /\ second.topics = profile.topics
                /\ second.coreTools = profile.coreTools
                /\ second.activeInterests = profile.activeInterests
                /\ second.totalDomainsAnalyzed = profile.totalDomainsAnalyzed

\* C15 amended: two cycles over the same visit records build profiles with
\* equal topics, coreTools and totalDomainsAnalyzed whatever the time between
\* them, and with equal activeInterests when no domain below the core
\* threshold has its last visit between the activity cutoffs of the two.
C15_EquivalentWithinWindow ==
    Built =>
        \A t \in SecondNows :
            LET second == Rebuilt(t)
            IN  /\ second.topics = profile.topics
                /\ second.coreTools = profile.coreTools
                /\ second.totalDomainsAnalyzed = profile.totalDomainsAnalyzed
                /\ SameWindow(t) => second.activeInterests = profile.activeInterests

\* a profile with core tools and active interests, built again at another
\* clock value that leaves every domain on its side of the cutoff
C15_Witness ==
    /\ Built
    /\ Len(profile.coreTools) > 0
    /\ Len(profile.activeInterests) > 0
    /\ \E t \in SecondNows : t # nowAt /\ SameWindow(t)

\* the lines of text: the pieces between its line feeds, in order
Lines(text) ==
    LET feeds == {i \in 1..Len(text) : SubSeq(text, i, i) = "\n"}
        marks == feeds \cup {0, Len(text) + 1}
        Mark(k) == CHOOSE m \in marks : Cardinality({x \in marks : x < m}) = k
    IN  [k \in 1..Cardinality(feeds) + 1 |-> SubSeq(text, Mark(k - 1) + 1, Mark(k) - 1)]

TopicsLabel == "**Interest areas:** "
ToolsLabel == "**Tools I use regularly:** "
ActiveLabel == "**Recently active on:** "

\* the positions of the lines of ls that begin with label
LinesWith(ls, label) == {k \in 1..Len(ls) : StartsWith(ls[k], label)}

\* label heads a line of ls iff listed is not empty, and then heads exactly
\* one line, which lists the members of listed in order
LineIff(ls, label, listed) ==
    IF Len(listed) = 0 THEN LinesWith(ls, label) = {}
    ELSE /\ Cardinality(LinesWith(ls, label)) = 1
         /\ \A k \in LinesWith(ls, label) : ls[k] = label \o Join(listed, ", ")

\* every line headed by the label a comes before every line headed by b
Before(ls, a, b) ==
    \A i \in LinesWith(ls, a), j \in LinesWith(ls, b) : i < j

\* C18: in the rendered text the "Interest areas" line is present iff topics
\* is not empty, the "Tools I use regularly" line iff coreTools is not empty
\* and the "Recently active on" line iff activeInterests is not empty; the
\* lines present come in that order and each lists its sequence in order;
\* for a profile with three empty sequences no line carries a label.
C18_LinesIffNonEmpty ==
    stage = "formatted" =>
        LET ls == Lines(formatted)
        IN  /\ LineIff(ls, TopicsLabel, profile.topics)
            /\ LineIff(ls, ToolsLabel, profile.coreTools)
            /\ LineIff(ls, ActiveLabel, profile.activeInterests)
            /\ Before(ls, TopicsLabel, ToolsLabel)
            /\ Before(ls, ToolsLabel, ActiveLabel)
            /\ Before(ls, TopicsLabel, ActiveLabel)
            /\ (Len(profile.topics) + Len(profile.coreTools)
                    + Len(profile.activeInterests) = 0)
                  => \A k \in 1..Len(ls) : ~StartsWith(ls[k], "**")

\* a profile with topics and active interests and no core tool was rendered
C18_Witness ==
    /\ stage = "formatted"
    /\ Len(profile.topics) > 0
    /\ Len(profile.coreTools) = 0
    /\ Len(profile.activeInterests) > 1
    /\ Cardinality(LinesWith(Lines(formatted), ActiveLabel)) = 1

\* the position in historyItems of the first record of domain
FirstSeen(domain) ==
    CHOOSE k \in 1..Len(historyItems) :
        /\ DomainOf[historyItems[k].url] = domain
        /\ \A j \in 1..k - 1 : DomainOf[historyItems[j].url] # domain

\* tier is in non-increasing visitCount order, equal counts in the order in
\* which their domains were first seen
StablySorted(tier) ==
    \A i, j \in 1..Len(tier) :
        i < j =>
            /\ tier[i].visitCount >= tier[j].visitCount
            /\ tier[i].visitCount = tier[j].visitCount
                  => FirstSeen(tier[i].domain) < FirstSeen(tier[j].domain)

\* C19: within each tier returned by classifyDomains the entries are in
\* non-increasing visitCount order, and entries with equal visitCount keep
\* the order in which their domains were first seen in the visit sequence.
C19_TiersStablySorted ==
    Built =>
        /\ StablySorted(classified.core)
        /\ StablySorted(classified.active)
        /\ StablySorted(classified.light)

\* a tier in which the sort moved a later domain before an earlier one and
\* which holds two domains with equal visitCount
C19_Witness ==
    /\ Built
    /\ \E i, j \in 1..Len(classified.core) :
          /\ i < j
          /\ classified.core[i].visitCount > classified.core[j].visitCount
          /\ FirstSeen(classified.core[i].domain) > FirstSeen(classified.core[j].domain)
    /\ \E i, j \in 1..Len(classified.core) :
          i < j /\ classified.core[i].visitCount = classified.core[j].visitCount

\* the domains of the map that are light when the profile is assembled
LightDomains ==
    {domainMap[i].domain : i \in
        {k \in 1..Len(domainMap) :
            /\ domainMap[k].visitCount < coreToolThreshold
            /\ domainMap[k].lastVisit < ActiveCutoff}}

\* C20: no light-tier domain (visitCount < coreToolThreshold and lastVisit <
\* now - activeDaysWindow) is in coreTools or activeInterests of the built
\* profile, and totalDomainsAnalyzed counts every domain of the map, the
\* light ones included.
C20_LightExcludedButCounted ==
    Built =>
        /\ \A d \in LightDomains :
              ~SeqHas(profile.coreTools, d) /\ ~SeqHas(profile.activeInterests, d)
        /\ profile.totalDomainsAnalyzed = Cardinality(Keys(domainMap))

\* a profile built from a light domain and a listed one
C20_Witness ==
    /\ Built
    /\ LightDomains # {}
    /\ Len(profile.coreTools) + Len(profile.activeInterests) > 0
    /\ profile.totalDomainsAnalyzed
          > Len(profile.coreTools) + Len(profile.activeInterests)

\* the lastVisitTime of a record, 0 when it has none
RecordTime(item) ==
    IF "lastVisitTime" \in DOMAIN item THEN item.lastVisitTime ELSE 0

\* the records of historyItems the aggregation keeps for domain
SurvivingOf(domain) ==
    SelectSeq(historyItems, LAMBDA item : Survives(item) /\ DomainOf[item.url] = domain)

\* t is the largest lastVisitTime of the records
IsLatest(t, records) ==
    /\ \E i \in 1..Len(records) : RecordTime(records[i]) = t
    /\ \A i \in 1..Len(records) : RecordTime(records[i]) <= t

\* C22: the lastVisit of every domain of the aggregated map is the maximum
\* lastVisitTime over the surviving records of the domain, a record without
\* lastVisitTime counting as 0.
C22_LastVisitIsMax ==
    Built =>
        \A i \in 1..Len(domainMap) :
            IsLatest(domainMap[i].lastVisit, SurvivingOf(domainMap[i].domain))

\* two records of notion.so, the later visit first: the entry has the time
\* of the first record, not of the last
C22_Witness ==
    /\ Built
    /\ Len(historyItems) = 2
    /\ Len(SurvivingOf("notion.so")) = 2
    /\ RecordTime(historyItems[2]) < RecordTime(historyItems[1])
    /\ domainMap[1].lastVisit = RecordTime(historyItems[1])

\* the position of a topic in the topic table
TableIndex(topic) == CHOOSE t \in 1..Len(topicMap) : topicMap[t].topic = topic

\* the positions, in insertion order, of the domains of the map that match a
\* pattern of the topic
MatchingDomains(topic) ==
    {i \in 1..Len(domainMap) :
        \E k \in 1..Len(topicMap[TableIndex(topic)].domains) :
            Matches(domainMap[i].domain, topicMap[TableIndex(topic)].domains[k])}

\* the first domain of the map matching the topic
FirstMatch(topic) ==
    CHOOSE i \in MatchingDomains(topic) : \A j \in MatchingDomains(topic) : i <= j

\* topic a is discovered before topic b
DiscoveredBefore(a, b) ==
    \/ FirstMatch(a) < FirstMatch(b)
    \/ FirstMatch(a) = FirstMatch(b) /\ TableIndex(a) < TableIndex(b)

\* C23: topics holds no topic twice and is in order of first discovery:
\* topic A precedes topic B iff the first domain, in insertion order of the
\* map, matching A comes before the first domain matching B, or they are
\* the same domain and A comes before B in the topic table.
C23_TopicsInDiscoveryOrder ==
    Built =>
        /\ \A i, j \in 1..Len(topics) : topics[i] = topics[j] => i = j
        /\ \A i \in 1..Len(topics) : MatchingDomains(topics[i]) # {}
        /\ \A i, j \in 1..Len(topics) :
              i < j <=> DiscoveredBefore(topics[i], topics[j])

\* a later topic of the table discovered first, and one domain discovering
\* two topics
C23_Witness ==
    /\ Built
    /\ topicMap = CustomTopicMap
    /\ Domains(domainMap) = <<"vogue.com", "github.com">>
    /\ topics = <<"Fashion & Style", "Product Management", "Engineering & Tech">>

\* the host is an entry of the blocklist or a subdomain of one
Excluded(host) == \E blocked \in blocklist : Matches(host, blocked)

\* hostname tabulated over the URLs of the inputs that parse
HostTable == [url \in {u \in Urls : ~UrlThrows(u)} |-> hostname(url)]

\* the hosts of the records whose URL parses
HostsOf(items) ==
    {HostTable[items[i].url] : i \in {j \in 1..Len(items) : items[j].url \in DOMAIN HostTable}}

\* the patterns of each topic of each table, split by whether they hold "/"
PatternsOf(table, t, withSlash) ==
    {table[t].domains[k] :
        k \in {j \in 1..Len(table[t].domains) :
                  Includes(table[t].domains[j], "/") = withSlash}}

PatternTable ==
    [table \in TopicTables |->
        [t \in 1..Len(table) |->
            [plain |-> PatternsOf(table, t, FALSE), slash |-> PatternsOf(table, t, TRUE)]]]

\* C28: an excluded domain never makes a topic appear, even when it matches
\* a topic pattern, and a pattern containing "/" matches no domain: every
\* topic of the profile is signalled by a domain that is not excluded,
\* through a pattern without "/", and a history whose hosts are all
\* excluded (gemini.google.com, aws.amazon.com) yields topics = [] and
\* totalDomainsAnalyzed = 0.
C28_ExcludedSignalNothing ==
    Built =>
        /\ \A i \in 1..Len(topics) :
              \E d \in Keys(domainMap) :
                  /\ ~Excluded(d)
                  /\ \E pattern \in PatternTable[topicMap][TableIndex(topics[i])].plain :
                        Matches(d, pattern)
        /\ \A d \in Keys(domainMap), t \in 1..Len(topicMap) :
              \A pattern \in PatternTable[topicMap][t].slash :
                  ~SomeMatch(<<pattern>>, d)
        /\ (\A host \in HostsOf(historyItems) : Excluded(host))
              => /\ topics = <<>>
                 /\ profile.totalDomainsAnalyzed = 0

\* a history of gemini.google.com and aws.amazon.com, each matching a topic
\* pattern, gave an empty profile
C28_Witness ==
    /\ Built
    /\ topicMap = DefaultTopicMap
    /\ HostsOf(historyItems) = {"gemini.google.com", "aws.amazon.com"}
    /\ \E t \in 1..Len(topicMap) : SomeMatch(topicMap[t].domains, "gemini.google.com")
    /\ \E t \in 1..Len(topicMap) : SomeMatch(topicMap[t].domains, "aws.amazon.com")
    /\ topics = <<>>
    /\ profile.totalDomainsAnalyzed = 0

\* the topic table of the inlined pipeline after the edit topicMap has had
InlinedTable ==
    IF topicMap = DefaultTopicMap THEN PROCESSOR_CONFIG.topicMap
    ELSE [PROCESSOR_CONFIG.topicMap EXCEPT ![1].domains = Append(@, "github.com")]

-----------------------------------------------------------------------------
(* Properties of the background service worker, checked under Spec *)

Ended(c) == cycles[c].pc = "done"

\* C3: a cycle whose history query or storage write fails leaves the slot as
\* it was: the step in which it fails does not change the slot, a cycle whose
\* query failed has issued no write, and the slot changes only in the step in
\* which the write of some cycle succeeds.
C3_FailedCycleKeepsSlot ==
    [][ /\ \A c \in CycleIds :
              (cycles[c].outcome = "pending" /\ cycles'[c].outcome # "pending"
                    /\ cycles'[c].outcome # "saved")
                 => /\ slot' = slot
                    /\ cycles'[c].outcome = "queryFailed" => cycles'[c].writes = 0
        /\ slot' # slot
              => \E c \in CycleIds :
                    cycles[c].pc = "write" /\ cycles'[c].outcome = "saved"
      ]_vars

\* a cycle failed at its write while the slot holds the different profile
\* another cycle stored
C3_Witness ==
    /\ slot # Absent
    /\ \E c \in CycleIds : cycles[c].outcome = "writeFailed" /\ cycles[c].profile # slot

\* C4: the response to syncNow says success = false when the cycle it
\* triggered failed, and success = true only when the cycle wrote a profile.
C4_ManualSyncReportsFailure ==
    \A c \in CycleIds :
        cycles[c].trigger = "syncNow"
            => \A k \in 1..Len(cycles[c].responses) :
                  cycles[c].responses[k].success <=> cycles[c].outcome = "saved"

\* C9: the slot is absent or equal, field for field, to the profile one
\* single cycle built, under any interleaving of overlapping cycles.
C9_SlotIsOneProfile ==
    \/ slot = Absent
    \/ \E c \in CycleIds : cycles[c].profile = slot

\* two overlapping cycles built profiles with different topics and both
\* stored theirs
C9_Witness ==
    /\ Len(cycles) >= 2
    /\ cycles[2].overlaps
    /\ cycles[1].outcome = "saved"
    /\ cycles[2].outcome = "saved"
    /\ cycles[1].profile.topics # cycles[2].profile.topics
    /\ cycles[1].profile.topics # <<>>
    /\ slot # Absent

\* C10: once the cycles have ended, the slot holds the profile of the cycle
\* whose storage write completed last, whichever started or queried first.
C10_LastWriteWins ==
    ((\A c \in CycleIds : Ended(c)) /\ writeLog # 0)
        => slot = cycles[writeLog].profile

\* cycle 2 started while cycle 1 was in flight and built its profile later,
\* but its write completed first
C10_Witness ==
    /\ Len(cycles) >= 2
    /\ cycles[2].overlaps
    /\ cycles[1].outcome = "saved"
    /\ cycles[2].outcome = "saved"
    /\ writeLog = 1
    /\ cycles[1].profile.generatedAt < cycles[2].profile.generatedAt

\* the response that says no profile is stored
NullResponse(action) == ResponseTo(action, Absent)

\* C11: while no cycle has completed a successful write, every getProfile
\* message is answered with profile = null and every getFormattedProfile
\* message with formatted = null: a message whose handler has ended got
\* exactly that one response.
C11_AbsentAnswersNull ==
    writeLog = 0 =>
        \A r \in ReadIds :
            reads[r].pc = "done" => reads[r].responses = <<NullResponse(reads[r].action)>>

\* C16: no failure of an external call (history query, storage read or
\* write, alarm create or get) leaves a handler of the background script as
\* an uncaught exception or an unhandled rejected promise.
C16_NothingEscapes == unhandled = 0

\* the records of items whose url the URL constructor accepts
Parsable(items) == SelectSeq(items, LAMBDA item : ~UrlThrows(item.url))

\* C17: a visit record whose URL cannot be parsed is dropped without an
\* error: in the step in which a cycle gets its query result, the aggregated
\* map and the profile are those of the result without the unparsable
\* records, and the cycle goes on to write that profile.
C17_MalformedDropped ==
    [][ \A c \in CycleIds :
            (cycles[c].pc = "query" /\ cycles'[c].pc # "query"
                    /\ cycles'[c].outcome # "queryFailed")
                => LET items == cycles'[c].historyItems
                       at == cycles'[c].profile.generatedAt
                   IN  /\ buildDomainFrequencyMap(items)
                             = buildDomainFrequencyMap(Parsable(items))
                       /\ cycles'[c].profile
                             = buildContextProfile(Parsable(items), topicMap, at, at)
                       /\ cycles'[c].pc = "write"
                       /\ cycles'[c].writes = 1
      ]_vars

\* a cycle whose query result held an unparsable record stored its profile
C17_Witness ==
    \E c \in CycleIds :
        /\ cycles[c].outcome = "saved"
        /\ Parsable(cycles[c].historyItems) # cycles[c].historyItems
        /\ slot = cycles[c].profile
        /\ slot.totalDomainsAnalyzed = 1

Failed(c) == cycles[c].outcome \in {"queryFailed", "writeFailed"}

\* a step in which syncHistory is called
CycleStarts == Len(cycles') > Len(cycles)

\* no step lets a cycle issue a second query or a second write, a cycle
\* that has ended issues no call, the step in which a call of a cycle fails
\* ends the cycle and starts no other, and a step that starts a cycle
\* starts one and leaves the others alone
OneShot ==
    /\ \A c \in 1..Len(cycles') :
          /\ cycles'[c].queries <= 1
          /\ cycles'[c].writes <= 1
    /\ \A c \in CycleIds :
          /\ Ended(c) => cycles'[c] = cycles[c]
          /\ (~Failed(c) /\ cycles'[c].outcome \in {"queryFailed", "writeFailed"})
                => /\ Ended(c)'
                   /\ cycles'[c].queries = cycles[c].queries
                   /\ cycles'[c].writes = cycles[c].writes
                   /\ ~CycleStarts
    /\ CycleStarts
          => /\ Len(cycles') = Len(cycles) + 1
             /\ SubSeq(cycles', 1, Len(cycles)) = cycles

\* C21 as stated: each cycle issues at most one history query and at most
\* one storage write, issues no further call after either fails, and a
\* cycle that starts once a cycle has failed is started by an alarm firing
\* or by a syncNow request.
C21_RetryOnlyByAlarmOrSyncNow ==
    [][ /\ OneShot
        /\ (CycleStarts /\ \E c \in CycleIds : Failed(c))
              => cycles'[Len(cycles')].trigger \in {"alarm", "syncNow"}
      ]_vars

\* C21: each cycle issues at most one history query and at most one storage
\* write, issues no further call after either fails, and a cycle starts
\* only in a step of one of the three callers of syncHistory: the onAlarm
\* listener, the syncNow message handler and the onInstalled listener.
C21_NoRetryInsideCycle ==
    [][ /\ OneShot
        /\ CycleStarts
              => /\ cycles'[Len(cycles')].trigger \in {"alarm", "syncNow", "install"}
                 /\ cycles'[Len(cycles')].trigger = "install" => installer = "creating"
                 /\ cycles'[Len(cycles')].trigger = "alarm" => alarm
      ]_vars

\* a manual cycle failed at its write, after its one query and one write,
\* and the cycle of onInstalled started afterwards
C21_Witness ==
    /\ Len(cycles) = 2
    /\ cycles[1].trigger = "syncNow"
    /\ cycles[1].outcome = "writeFailed"
    /\ cycles[1].queries = 1
    /\ cycles[1].writes = 1
    /\ ~cycles[2].overlaps
    /\ cycles[2].trigger = "install"

\* the profile of the storage write that completed last, if any
LastWritten == IF writeLog = 0 THEN Absent ELSE cycles[writeLog].profile

C26_OneResponseAfterEnd ==
    \A c \in CycleIds :
        cycles[c].trigger = "syncNow"
            => /\ InFlight(c) => cycles[c].responses = <<>>
               /\ Ended(c) => Len(cycles[c].responses) = 1
               /\ InFlight(c) \/ Ended(c)

\* two overlapping manual cycles, one aborted and one that stored its
\* profile, each answered once
C26_Witness ==
    /\ Len(cycles) = 2
    /\ cycles[1].trigger = "syncNow"
    /\ cycles[2].trigger = "syncNow"
    /\ cycles[2].overlaps
    /\ cycles[1].outcome = "queryFailed"
    /\ cycles[2].outcome = "saved"
    /\ Len(cycles[1].responses) = 1
    /\ Len(cycles[2].responses) = 1

\* C29: across the successful writes the generatedAt of the stored profile
\* never decreases, also when cycles overlap: the stored profile was
\* assembled no earlier than the profile of any cycle whose write has
\* completed.
C29_GeneratedAtNeverDecreases ==
    \A c \in CycleIds :
        cycles[c].outcome = "saved"
            => slot.generatedAt >= cycles[c].profile.generatedAt

-----------------------------------------------------------------------------
(* Properties of the content script, checked under SpecContent *)

Selectors == DOMAIN elements

\* C12: an injection attempt writes the profile text into an element only
\* when the element's content does not contain the marker
\* "## Personal Context", and so, over the attempts of init() and of its
\* re-runs after URL changes, at most once: a step that writes into an
\* element starts from content without the marker and from no earlier write.
C12_InjectedAtMostOnce ==
    [][ \A sel \in Selectors :
            elements'[sel].writes # elements[sel].writes
                => /\ ~Includes(elements[sel].content, Marker)
                   /\ elements[sel].writes = 0
                   /\ elements'[sel].writes = 1
      ]_vars

\* init() and its re-run after a URL change both found the same element,
\* which was written once
C12_Witness ==
    /\ Len(chains) = 2
    /\ chains[1].found
    /\ chains[2].found
    /\ ~elements["input"].present
    /\ elements["inputAlt"].writes = 1
    /\ Includes(elements["inputAlt"].content, Marker)

\* the call of injectContext of chain ch has a timer pending
Scheduled(ch) == ch \in ChainIds /\ chains[ch].pc = "timer"

Stopped(ch) == ch \in ChainIds /\ chains[ch].pc = "stopped"

\* C25: one call of injectContext looks the input element up at most
\* MAX_RETRIES times, looks it up no more once a lookup has found it, and
\* always eventually stops scheduling attempts, whether or not the element
\* ever appears.
C25_LookupsBoundedAndStop ==
    /\ [](\A ch \in ChainIds :
            /\ chains[ch].lookups <= MAX_RETRIES
            /\ chains[ch].found => chains[ch].pc = "stopped")
    /\ [][\A ch \in ChainIds : chains[ch].pc = "stopped" => chains'[ch] = chains[ch]]_vars
    /\ <>[](\A ch \in ChainIds : ~Scheduled(ch))

\* one call gave up after MAX_RETRIES lookups without the element, another
\* found the element after some failed lookups
C25_Witness ==
    /\ Len(chains) = 2
    /\ chains[1].lookups = MAX_RETRIES
    /\ ~chains[1].found
    /\ chains[1].pc = "stopped"
    /\ chains[2].found
    /\ chains[2].lookups > 1
    /\ chains[2].pc = "stopped"

\* the element the attempt of chain ch finds in this step
FoundBy(ch) == findInputElement(getSelectors(chains[ch].platform))

\* C27: an injection that writes into an element leaves it with the profile
\* text followed by the element's previous content, unchanged, and
\* dispatches one input event; an injection that finds the marker in the
\* element leaves its content unchanged and dispatches no input event; no
\* other element changes.
C27_PrependsOrLeavesAlone ==
    [][ \A ch \in ChainIds :
            (~chains[ch].found /\ chains'[ch].found)
                => LET before == elements[FoundBy(ch)]
                       after == elements'[FoundBy(ch)]
                   IN  /\ IF Includes(before.content, Marker)
                          THEN /\ after.content = before.content
                               /\ after.events = before.events
                          ELSE /\ after.content = chains[ch].text \o before.content
                               /\ after.events = before.events + 1
                       /\ \A sel \in Selectors \ {FoundBy(ch)} :
                             elements'[sel] = elements[sel]
      ]_vars

\* one attempt wrote the profile text before the draft of the textarea;
\* another found the marker, in the textarea or in the text pasted into the
\* div, and the div got no event
C27_Witness ==
    /\ Len(chains) = 2
    /\ chains[1].found
    /\ chains[2].found
    /\ elements["inputAlt"].content = chains[1].text \o "draft"
    /\ elements["inputAlt"].events = 1
    /\ elements["input"].present
    /\ Includes(elements["input"].content, Marker)
    /\ elements["input"].events = 0

====
